---- MODULE Spec2Model ----
(***************************************************************************)
(* Model of the GraphQL library catalog server of src/index.js: the        *)
(* resolvers (Query, Mutation, Subscription), the request context           *)
(* function, and the three collections (Author, Book, User) they act on.    *)
(*                                                                          *)
(* addBook is modelled step by step, one action per store round trip        *)
(* (every await of the handler is a point where other requests run).        *)
(* The other mutations make a single write and are modelled by one action   *)
(* at the point of that write: editAuthor's preceding findOne reads a name  *)
(* and an _id that no operation ever changes or deletes.                    *)
(*                                                                          *)
(* Optional values (null / undefined in the source) are modelled as the     *)
(* empty tuple None, a present value x as Some(x) = <<x>>.                  *)
(*                                                                          *)
(* Six specifications run the same actions over different requests:         *)
(* Spec (concurrent writers and subscribers), SpecAuth (sign-up and login   *)
(* over every username and password), SpecQuery (the listings over books    *)
(* of every genre list, one writer at a time), SpecRead (every query        *)
(* operation beside one writer and subscribers), SpecIdentity (requests     *)
(* of every authorization header) and SpecCorrupt (reads over a store       *)
(* whose Book documents are corrupted from outside the server).             *)
(***************************************************************************)
EXTENDS Integers, Sequences, FiniteSets, TLC

VARIABLES authors, books, users, calls, subs, tokens, resp

vars == <<authors, books, users, calls, subs, tokens, resp>>

None == <<>>
Some(x) == <<x>>

\* ------------------------------------------------------------------ bounds

MaxAuthors == 2
MaxBooks == 2
MaxUsers == 2
MaxSubs == 2
MaxCalls == 2

CallIds == 1..MaxCalls

\* ------------------------------------------------------------------ inputs

Usernames == {"alice", "bob"}
Passwords == {"pw1", "pw2"}
FavoriteGenres == {"fantasy"}

Titles == {"D", "Dune"}
AuthorNames == {"Bob", "Frank Herbert", "Isaac Asimov"}
PublishedYears == {1965}
BornYears == {1920}
GenreLists == {<<>>, <<"scifi">>, <<"", "sci">>}
GenreArgs == {None, Some(""), Some("sci"), Some("scifi")}

\* ------------------------------------------------------------------ errors

\* new UserInputError(message, { invalidArgs: args })
UserInputError(message, invalidArgs) ==
    [type |-> "UserInputError", message |-> message, invalidArgs |-> invalidArgs]

\* an error of the store driver that reaches the caller unwrapped
StoreError(message) ==
    [type |-> "Error", message |-> message, invalidArgs |-> None]

Ok(value) == [ok |-> TRUE, value |-> Some(value), error |-> None]
Fail(error) == [ok |-> FALSE, value |-> None, error |-> Some(error)]

\* ------------------------------------------------------------------ store

\* Model.findOne / findById: the first of the matching documents, or null.
FirstOf(hits) == IF hits = <<>> THEN None ELSE Some(Head(hits))

\* (mutant) the lookup answers the first Author, whatever its name.
FindAuthorByName_First(name) == FirstOf(authors)

\* Author.findOne({ name: name })
FindAuthorByName(name) ==
    LET Test(a) == a.name = name IN FirstOf(SelectSeq(authors, Test))

\* Author.findById(id)
FindAuthorById(id) ==
    LET Test(a) == a.id = id IN FirstOf(SelectSeq(authors, Test))

\* User.findOne({ username: username })
FindUserByName(username) ==
    LET Test(u) == u.username = username IN FirstOf(SelectSeq(users, Test))

\* (mutant) the lookup answers the first User, whatever the id.
FindUserById_First(id) == FirstOf(users)

\* User.findById(id)
FindUserById(id) ==
    LET Test(u) == u.id = id IN FirstOf(SelectSeq(users, Test))

\* The _id the store gives the next document of a collection: ObjectIds are
\* unique within a collection and nothing is ever deleted.
NextId(coll) == Len(coll) + 1

\* (mutant) the new Author is given the title of the Book as its name.
NewAuthorOfBook_TitleAsName(args) ==
    [id |-> NextId(authors), name |-> args.title, born |-> None]

\* new Author({ name: args.author }): born is left unset.
NewAuthorOfBook(args) ==
    [id |-> NextId(authors), name |-> args.author, born |-> None]

\* new Author({...args}) of addAuthor.
NewAuthorOfArgs(args) ==
    [id |-> NextId(authors), name |-> args.name, born |-> args.born]

\* The Book document built from the arguments and the chosen author _id.
NewBook(args, authorId) ==
    [id |-> NextId(books),
     title |-> args.title,
     author |-> authorId,
     published |-> args.published,
     genres |-> args.genres]

\* The answers the store can give to the save of a new Author: it may accept
\* it, whether or not another Author has the name (the schema of the Author
\* collection is no part of index.js, and no step of addBook or addAuthor
\* guards against a second Author of the same name), and it may reject it.
AuthorSaveAnswers(author) == {TRUE, FALSE}

\* The answers the store can give to the save of a new Book.
BookSaveAnswers(book) == {TRUE, FALSE}

\* The User collection keeps usernames unique: saving a second User with a
\* username already present is rejected by the store.
UserSaveAnswers(user) ==
    IF FindUserByName(user.username) # None THEN {FALSE} ELSE {TRUE}

\* ------------------------------------------------------------------ bcrypt, jwt

JWT_SECRET == "secret"
saltRounds == 10
Salts == {"s1", "s2"}

\* bcrypt.hash(password, saltRounds) with the salt bcrypt drew for it.
BcryptHash(password, salt) ==
    [rounds |-> saltRounds, salt |-> salt, digest |-> <<salt, password>>]

\* bcrypt.compare(password, hash): rehash with the salt stored in the hash.
BcryptCompare(password, hash) ==
    [rounds |-> hash.rounds, salt |-> hash.salt, digest |-> <<hash.salt, password>>] = hash

\* jwt.sign(payload, secret)
JwtSign(payload, secret) ==
    [payload |-> payload, signature |-> <<payload, secret>>]

\* jwt.verify(token, secret): the payload, or None when verification throws.
JwtVerify(token, secret) ==
    IF token.signature = <<token.payload, secret>> THEN Some(token.payload) ELSE None

\* A token signed by somebody who does not hold JWT_SECRET.
ForgedToken(username, id) == JwtSign([username |-> username, id |-> id], "guess")

\* ------------------------------------------------------------------ context

\* String.prototype.toLowerCase on the scheme words the requests use.
ToLowerCase(s) ==
    CASE s = "Bearer" -> "bearer"
      [] s = "BEARER" -> "bearer"
      [] s = "Basic" -> "basic"
      [] OTHER -> s

\* An authorization header "<scheme> <credentials>"; None when absent.
Header(scheme, credentials) == Some([scheme |-> scheme, credentials |-> credentials])

\* auth.toLowerCase().startsWith('bearer ')
HasBearerPrefix(auth) == ToLowerCase(auth.scheme) = "bearer"

\* (mutant) a token that does not verify is treated as no token.
Context_Downgrades(header) ==
    IF header # None /\ HasBearerPrefix(header[1])
    THEN LET decodedToken == JwtVerify(header[1].credentials, JWT_SECRET)
         IN  IF decodedToken = None
             THEN Ok([currentUser |-> None])
             ELSE Ok([currentUser |-> FindUserById(decodedToken[1].id)])
    ELSE Ok([currentUser |-> None])

\* The context function of the server: the context object of the request,
\* or the error thrown while building it.
Context(header) ==
    IF header # None /\ HasBearerPrefix(header[1])
    THEN LET decodedToken == JwtVerify(header[1].credentials, JWT_SECRET)
         IN  IF decodedToken = None
             THEN Fail([type |-> "JsonWebTokenError", message |-> "invalid signature",
                        invalidArgs |-> None])
             ELSE Ok([currentUser |-> FindUserById(decodedToken[1].id)])
    ELSE Ok([currentUser |-> None])

\* ------------------------------------------------------------------ state

\* A slot in which no addBook call is running.
IdleCall ==
    [pc |-> "idle", args |-> None, ctx |-> None, author |-> None,
     authorId |-> None, book |-> None]

\* No request has been answered yet.
NoResponse == [op |-> "none", result |-> Ok("none")]

\* The answer a client gets to a request of kind op.
Response(op, result) == [op |-> op, result |-> result]

Init ==
    /\ authors = <<>>
    /\ books = <<>>
    /\ users = <<>>
    /\ calls = [c \in CallIds |-> IdleCall]
    /\ subs = <<>>
    /\ tokens = {}
    /\ resp = NoResponse

\* The addBook calls that have yet to save an Author, a Book.
PendingAuthors == Cardinality({c \in CallIds : calls[c].pc = "insertAuthor"})
PendingBooks == Cardinality({c \in CallIds : calls[c].pc \in {"insertAuthor", "saveBook"}})

\* Room left in the bounded collections for one more document.
RoomForBook == Len(books) + PendingBooks < MaxBooks
RoomForAuthor == Len(authors) + PendingAuthors < MaxAuthors

\* ------------------------------------------------------------------ addBook

\* if(!context.currentUser)
Unauthenticated(ctx) == ctx.currentUser = None

\* (mutant) a title of one character passes.
TitleTooShort_OneAllowed(args) == args.title = "" \/ Len(args.title) < 1

\* if(!args.title || args.title.length < 2)
TitleTooShort(args) == args.title = "" \/ Len(args.title) < 2

\* if(!args.author || args.author.length < 4)
AuthorTooShort(args) == args.author = "" \/ Len(args.author) < 4

MissingAuthorization == UserInputError("missing authorization header", None)
TitleError(args) ==
    UserInputError("book title too short, must be at least 2", Some(args))
AuthorError(args) ==
    UserInputError("author name too short, must be at least 4", Some(args))

\* (mutant) the arguments are validated before the caller is authenticated.
AddBookRejection_ValidatesFirst(args, ctx) ==
    IF TitleTooShort(args) THEN Some(TitleError(args))
    ELSE IF AuthorTooShort(args) THEN Some(AuthorError(args))
    ELSE IF Unauthenticated(ctx) THEN Some(MissingAuthorization)
    ELSE None

\* The checks addBook makes before it touches the store: the error thrown,
\* or None when the call goes on to look the author up.
AddBookRejection(args, ctx) ==
    IF Unauthenticated(ctx) THEN Some(MissingAuthorization)
    ELSE IF TitleTooShort(args) THEN Some(TitleError(args))
    ELSE IF AuthorTooShort(args) THEN Some(AuthorError(args))
    ELSE None

\* (mutant) the reference is the _id of a second Author document, built for
\* the Book and never saved.
AuthorIdOf_Unsaved(author, saved) ==
    IF author = None THEN saved.id + 1 ELSE author[1].id

\* (mutant) the id of the Author saved last is used, also when one was found.
AuthorIdOf_Latest(author, saved) ==
    IF author = None THEN saved.id ELSE Len(authors)

\* authorId = response._id of the saved Author, or author._id of the one found.
AuthorIdOf(author, saved) ==
    IF author = None THEN saved.id ELSE author[1].id

\* (mutant) only the first subscriber is sent the payload.
Publish_FirstOnly(inboxes, payload) ==
    [i \in DOMAIN inboxes |->
        IF i = 1 THEN Append(inboxes[i], payload) ELSE inboxes[i]]

\* pubsub.publish('BOOK_ADDED', payload): the payload is pushed to every
\* iterator subscribed at that moment.
Publish(inboxes, payload) ==
    [i \in DOMAIN inboxes |-> Append(inboxes[i], payload)]

\* pubsub.asyncIterator(['BOOK_ADDED']): a new iterator with nothing queued.
Subscribed(inboxes) == Append(inboxes, <<>>)

\* The request reaches the server: the context is built, the arguments are
\* checked, and Author.findOne({ name }) is answered by the store. The call
\* runs in the first free slot (which slot is of no consequence).
AddBookFind(c, header, args) ==
    /\ calls[c].pc = "idle"
    /\ \A d \in CallIds : d < c => calls[d].pc # "idle"
    /\ RoomForBook
    /\ FindAuthorByName(args.author) = None => RoomForAuthor
    /\ LET context == Context(header) IN
       IF ~context.ok
       THEN /\ resp' = Response("addBook", Fail(context.error[1]))
            /\ UNCHANGED calls
       ELSE LET ctx == context.value[1]
                rejection == AddBookRejection(args, ctx)
                author == FindAuthorByName(args.author)
            IN  IF rejection # None
                THEN /\ resp' = Response("addBook", Fail(rejection[1]))
                     /\ UNCHANGED calls
                ELSE /\ calls' = [calls EXCEPT ![c] =
                            [pc |-> IF author = None THEN "insertAuthor" ELSE "saveBook",
                             args |-> Some(args), ctx |-> Some(ctx), author |-> author,
                             authorId |-> IF author = None THEN None
                                          ELSE Some(AuthorIdOf(author, None)),
                             book |-> None]]
                     /\ UNCHANGED resp
    /\ UNCHANGED <<authors, books, users, subs, tokens>>

\* await newAuthor.save(): the store inserts the Author, or rejects the
\* insert and the error leaves addBook uncaught.
AddBookInsertAuthor(c) ==
    /\ calls[c].pc = "insertAuthor"
    /\ LET call == calls[c]
           newAuthor == NewAuthorOfBook(call.args[1])
       IN  \E accepted \in AuthorSaveAnswers(newAuthor) :
             IF accepted
             THEN /\ authors' = Append(authors, newAuthor)
                  /\ calls' = [calls EXCEPT ![c].pc = "saveBook",
                                            ![c].authorId = Some(AuthorIdOf(call.author, newAuthor))]
                  /\ UNCHANGED resp
             ELSE /\ resp' = Response("addBook", Fail(StoreError("author save failed")))
                  /\ calls' = [calls EXCEPT ![c] = IdleCall]
                  /\ UNCHANGED authors
    /\ UNCHANGED <<books, users, subs, tokens>>

\* (mutant) the event is published before the save of the Book is awaited.
AddBookSaveBook_PublishesFirst(c) ==
    /\ calls[c].pc = "saveBook"
    /\ LET call == calls[c]
           book == NewBook(call.args[1], call.authorId[1])
       IN  /\ subs' = Publish(subs, [bookAdded |-> book])
           /\ \E accepted \in BookSaveAnswers(book) :
                 IF accepted
                 THEN /\ books' = Append(books, book)
                      /\ calls' = [calls EXCEPT ![c].pc = "publish", ![c].book = Some(book)]
                      /\ UNCHANGED resp
                 ELSE /\ resp' = Response("addBook",
                                          Fail(UserInputError("book save failed", call.args)))
                      /\ calls' = [calls EXCEPT ![c] = IdleCall]
                      /\ UNCHANGED books
    /\ UNCHANGED <<authors, users, tokens>>

\* await book.save(): the store inserts the Book, or rejects it and addBook
\* throws UserInputError(error.message, { invalidArgs: args }).
AddBookSaveBook(c) ==
    /\ calls[c].pc = "saveBook"
    /\ LET call == calls[c]
           book == NewBook(call.args[1], call.authorId[1])
       IN  \E accepted \in BookSaveAnswers(book) :
             IF accepted
             THEN /\ books' = Append(books, book)
                  /\ calls' = [calls EXCEPT ![c].pc = "publish", ![c].book = Some(book)]
                  /\ UNCHANGED resp
             ELSE /\ resp' = Response("addBook",
                                      Fail(UserInputError("book save failed", call.args)))
                  /\ calls' = [calls EXCEPT ![c] = IdleCall]
                  /\ UNCHANGED books
    /\ UNCHANGED <<authors, users, subs, tokens>>

\* pubsub.publish('BOOK_ADDED', { bookAdded: book }); return book;
AddBookPublish(c) ==
    /\ calls[c].pc = "publish"
    /\ LET call == calls[c] IN
       /\ subs' = Publish(subs, [bookAdded |-> call.book[1]])
       /\ resp' = Response("addBook", Ok(call.book[1]))
    /\ calls' = [calls EXCEPT ![c] = IdleCall]
    /\ UNCHANGED <<authors, books, users, tokens>>

\* A client opens the bookAdded subscription.
Subscribe ==
    /\ Len(subs) < MaxSubs
    /\ subs' = Subscribed(subs)
    /\ UNCHANGED <<authors, books, users, calls, tokens, resp>>

\* ------------------------------------------------------------------ addAuthor, editAuthor

\* if(!args.name || args.name.length < 4)
NameTooShort(args) == args.name = "" \/ Len(args.name) < 4

\* addAuthor: validate, then save a new Author without looking the name up.
AddAuthor(args) ==
    /\ RoomForAuthor
    /\ IF NameTooShort(args)
       THEN /\ resp' = Response("addAuthor",
                                Fail(UserInputError("author name too short, must be at least 4",
                                                    Some(args))))
            /\ UNCHANGED authors
       ELSE \E accepted \in AuthorSaveAnswers(NewAuthorOfArgs(args)) :
              IF accepted
              THEN /\ authors' = Append(authors, NewAuthorOfArgs(args))
                   /\ resp' = Response("addAuthor", Ok(NewAuthorOfArgs(args)))
              ELSE /\ resp' = Response("addAuthor",
                                       Fail(UserInputError("author save failed", Some(args))))
                   /\ UNCHANGED authors
    /\ UNCHANGED <<books, users, calls, subs, tokens>>

\* The document an update with { name, born } leaves.
UpdatedAuthor(author, newAuthor) ==
    [author EXCEPT !.name = newAuthor.name, !.born = newAuthor.born]

\* (mutant) the update is made by name: every Author of that name is updated.
UpdateAuthorById_ByName(id, newAuthor) ==
    [i \in DOMAIN authors |->
        IF authors[i].name = newAuthor.name
        THEN UpdatedAuthor(authors[i], newAuthor) ELSE authors[i]]

\* Author.findByIdAndUpdate(id, { name, born }, { new: true }): the collection
\* after the update.
UpdateAuthorById(id, newAuthor) ==
    [i \in DOMAIN authors |->
        IF authors[i].id = id THEN UpdatedAuthor(authors[i], newAuthor) ELSE authors[i]]

\* editAuthor: the authentication test, the lookup by name, the update.
EditAuthor(header, args) ==
    /\ LET context == Context(header) IN
       IF ~context.ok
       THEN /\ resp' = Response("editAuthor", Fail(context.error[1]))
            /\ UNCHANGED authors
       ELSE LET ctx == context.value[1]
                author == FindAuthorByName(args.name)
                newAuthor == [name |-> args.name, born |-> Some(args.setBornTo)]
            IN  IF Unauthenticated(ctx)
                THEN /\ resp' = Response("editAuthor", Fail(MissingAuthorization))
                     /\ UNCHANGED authors
                ELSE IF author = None
                THEN /\ resp' = Response("editAuthor", Ok(None))
                     /\ UNCHANGED authors
                ELSE \E accepted \in AuthorSaveAnswers(UpdatedAuthor(author[1], newAuthor)) :
                       IF accepted
                       THEN /\ authors' = UpdateAuthorById(author[1].id, newAuthor)
                            /\ resp' = Response("editAuthor",
                                                Ok(Some(UpdatedAuthor(author[1], newAuthor))))
                       ELSE /\ resp' = Response("editAuthor",
                                                Fail(UserInputError("author update failed",
                                                                    Some(args))))
                            /\ UNCHANGED authors
    /\ UNCHANGED <<books, users, calls, subs, tokens>>

\* ------------------------------------------------------------------ createUser, login

\* The view of a User the schema exposes: the password hash is no field of it.
UserView(user) ==
    [username |-> user.username, favoriteGenre |-> user.favoriteGenre, id |-> user.id]

\* createUser: hash the password (bcrypt draws the salt) and save the User.
CreateUser(args, salt) ==
    /\ Len(users) < MaxUsers
    /\  LET passwordHash == BcryptHash(args.password, salt)
             user == [id |-> NextId(users),
                      username |-> args.username,
                      favoriteGenre |-> args.favoriteGenre,
                      passwordHash |-> passwordHash]
         IN  \E accepted \in UserSaveAnswers(user) :
               IF accepted
               THEN /\ users' = Append(users, user)
                    /\ resp' = Response("createUser", Ok(UserView(user)))
               ELSE /\ resp' = Response("createUser",
                                        Fail(UserInputError("user save failed", Some(args))))
                    /\ UNCHANGED users
    /\ UNCHANGED <<authors, books, calls, subs, tokens>>

WrongCredentials == UserInputError("wrong credentials", None)

\* (mutant) the token carries the id of the User created last.
UserForToken_LatestId(user) == [username |-> user.username, id |-> Len(users)]

\* userForToken = { username: user.username, id: user._id }
UserForToken(user) == [username |-> user.username, id |-> user.id]

\* passwordCorrect = user === null ? false : await bcrypt.compare(...)
PasswordCorrect(user, password) ==
    IF user = None THEN FALSE ELSE BcryptCompare(password, user[1].passwordHash)

\* (mutant) an unknown username gets an error of its own.
LoginResult_NoSuchUser(args) ==
    LET user == FindUserByName(args.username)
        passwordCorrect == PasswordCorrect(user, args.password)
    IN  IF user = None THEN Fail(UserInputError("no such user", None))
        ELSE IF ~passwordCorrect THEN Fail(WrongCredentials)
        ELSE Ok([value |-> JwtSign(UserForToken(user[1]), JWT_SECRET)])

\* login: the answer to a login request.
LoginResult(args) ==
    LET user == FindUserByName(args.username)
        passwordCorrect == PasswordCorrect(user, args.password)
    IN  IF ~(user # None /\ passwordCorrect)
        THEN Fail(WrongCredentials)
        ELSE Ok([value |-> JwtSign(UserForToken(user[1]), JWT_SECRET)])

\* login; the client keeps the token it was given.
Login(args) ==
    /\ resp' = Response("login", LoginResult(args))
    /\ tokens' = IF LoginResult(args).ok
                 THEN tokens \cup {LoginResult(args).value[1].value}
                 ELSE tokens
    /\ UNCHANGED <<authors, books, users, calls, subs>>

\* ------------------------------------------------------------------ queries

\* The 24 hex digit form of the ObjectId the model calls i.
ObjectIdHex(i) ==
    CASE i = 1 -> "000000000000000000000001"
      [] i = 2 -> "000000000000000000000002"
      [] i = 3 -> "000000000000000000000003"
      [] i = 4 -> "000000000000000000000004"
      [] OTHER -> "00000000000000000000000f"

\* An ObjectId that no document of the store has.
ForeignId == 0

\* The cast mongoose applies to a string compared with an ObjectId field:
\* 24 hex digits are that id, any 12 character string is an id made of its
\* bytes, everything else is a CastError (None).
CastObjectId(str) ==
    IF \E i \in 1..4 : ObjectIdHex(i) = str
    THEN Some(CHOOSE i \in 1..4 : ObjectIdHex(i) = str)
    ELSE IF Len(str) = 12 THEN Some(ForeignId)
    ELSE None

\* A JavaScript string argument that is present and not empty.
Truthy(arg) == arg # None /\ arg[1] # ""

\* (mutant) a wanted tag matches every tag it is a prefix of.
MatchesAll_Prefix(genres, wanted) ==
    \A w \in wanted :
      \E i \in DOMAIN genres :
        genres[i] = w \/ (w = "sci" /\ genres[i] = "scifi")

\* { genres: { $all: wanted } }: every wanted tag is an element of the array.
MatchesAll(genres, wanted) ==
    \A w \in wanted : \E i \in DOMAIN genres : genres[i] = w

\* Book.find({}) answers the documents as stored.
Stored(book) == [book |-> book, populated |-> FALSE, authorDoc |-> None]

\* .populate('author', { name: 1, born: 1 }): the author reference replaced
\* by the Author document it names (null when there is none).
Populated(book) ==
    [book |-> book, populated |-> TRUE, authorDoc |-> FindAuthorById(book.author)]

\* Query.allBooks(args)
AllBooks(args) ==
    IF ~Truthy(args.author) /\ ~Truthy(args.genre)
    THEN Ok([i \in DOMAIN books |-> Stored(books[i])])
    ELSE LET byAuthor == Truthy(args.author)
             byGenre == Truthy(args.genre)
             authorId == IF byAuthor THEN CastObjectId(args.author[1]) ELSE None
             Match(b) == /\ byAuthor => b.author = authorId[1]
                         /\ byGenre => MatchesAll(b.genres, {args.genre[1]})
             hits == SelectSeq(books, Match)
         IN  IF byAuthor /\ authorId = None
             THEN Fail([type |-> "CastError", message |-> "Cast to ObjectId failed",
                        invalidArgs |-> None])
             ELSE Ok([i \in DOMAIN hits |-> Populated(hits[i])])

\* Query.bookCount, Query.authorCount: countDocuments() of the collection.
BookCount == Len(books)
AuthorCount == Len(authors)

\* A listBooks request is answered.
QueryAllBooks(args) ==
    /\ resp' = Response("allBooks", AllBooks(args))
    /\ UNCHANGED <<authors, books, users, calls, subs, tokens>>

\* A bookCount or authorCount request is answered.
QueryCounts ==
    /\ resp' = Response("counts", Ok([bookCount |-> BookCount, authorCount |-> AuthorCount]))
    /\ UNCHANGED <<authors, books, users, calls, subs, tokens>>

\* (mutant) every Book is counted, whoever its author is.
AuthorBookCount_AllBooks(root) == Len(books)

\* Author.bookCount(root): books = await Book.find({ author: root.id });
\* return books.length
AuthorBookCount(root) ==
    LET Test(b) == b.author = root.id IN Len(SelectSeq(books, Test))

\* An Author as the schema answers it: name, born and id are read off the
\* root object, bookCount is answered by the Author.bookCount resolver.
AuthorView(root) ==
    [id |-> root.id, name |-> root.name, born |-> root.born,
     bookCount |-> AuthorBookCount(root)]

\* Query.allAuthors: Author.find({}), each Author answered as its view.
AllAuthors == Ok([i \in DOMAIN authors |-> AuthorView(authors[i])])

\* The ObjectId mongoose makes of the author field of a listed Book: the
\* stored reference, or the _id of the document populate put in its place
\* (null when populate found no document).
AuthorRef(entry) ==
    IF ~entry.populated THEN Some(entry.book.author)
    ELSE IF entry.authorDoc = None THEN None
    ELSE Some(entry.authorDoc[1].id)

\* Book.author(root): author = await Author.findById(root.author), then
\* author.name and author.born are read with no test of author; the object
\* returned has id root.author, and its bookCount is answered by
\* Author.bookCount. Reading a property of null throws a TypeError, which
\* the server reports as an error of the request.
BookAuthor(entry) ==
    LET ref == AuthorRef(entry)
        author == IF ref = None THEN None ELSE FindAuthorById(ref[1])
    IN  IF author = None
        THEN Fail([type |-> "TypeError",
                   message |-> "Cannot read property 'name' of null",
                   invalidArgs |-> None])
        ELSE Ok(AuthorView([id |-> ref[1], name |-> author[1].name,
                            born |-> author[1].born]))

\* Query.me: return context.currentUser, answered as the schema's User.
Me(ctx) ==
    IF ctx.currentUser = None THEN None ELSE Some(UserView(ctx.currentUser[1]))

\* (mutant) the listing keeps each Author's count on the Author document.
QueryAllAuthors_StoresCount ==
    /\ resp' = Response("allAuthors", AllAuthors)
    /\ authors' = [i \in DOMAIN authors |-> AuthorView(authors[i])]
    /\ UNCHANGED <<books, users, calls, subs, tokens>>

\* A listAuthors request is answered.
QueryAllAuthors ==
    /\ resp' = Response("allAuthors", AllAuthors)
    /\ UNCHANGED <<authors, books, users, calls, subs, tokens>>

\* A whoAmI request is answered: the context is built from the header, and
\* the request fails when building it throws.
QueryMe(header) ==
    /\ LET context == Context(header) IN
       resp' = Response("me", IF context.ok THEN Ok(Me(context.value[1]))
                              ELSE Fail(context.error[1]))
    /\ UNCHANGED <<authors, books, users, calls, subs, tokens>>

\* The author field of the i-th Book of the unfiltered listing is answered.
QueryBookAuthor(i) ==
    /\ i \in DOMAIN books
    /\ resp' = Response("bookAuthor", BookAuthor(Stored(books[i])))
    /\ UNCHANGED <<authors, books, users, calls, subs, tokens>>

\* ------------------------------------------------------------------ requests

\* The authorization headers a client that holds the tokens issued so far can send.
IssuedHeaders == {Header("Bearer", t) : t \in tokens}

\* The headers of the requests: none, one of another scheme, one with a token.
RequestHeaders ==
    {None, Header("Basic", ForgedToken("alice", 1))} \cup IssuedHeaders

AddBookArgs(titles, names, genreLists) ==
    [title : titles, author : names, published : PublishedYears, genres : genreLists]

AuthorArgs == {None, Some(""), Some("Frank Herbert"), Some("Frank Herber"),
               Some(ObjectIdHex(1)), Some(ObjectIdHex(2))}

\* The addBook requests of the concurrent writers: two valid ones, one with a
\* short title, one with a short author name, one with both.
WriterArgs ==
    {a \in AddBookArgs(Titles, AuthorNames, {<<"scifi">>}) :
        a.title = "D" => a.author \in {"Bob", "Frank Herbert"}}

\* The steps of the addBook calls in flight.
AddBookSteps(c) ==
    \/ AddBookInsertAuthor(c)
    \/ AddBookSaveBook(c)
    \/ AddBookPublish(c)

\* The catalogue under concurrent writers: one registered user, two addBook
\* calls interleaving, explicit author creation and edits, subscribers.
Next ==
    \/ CreateUser([username |-> "alice", password |-> "pw1", favoriteGenre |-> "fantasy"], "s1")
    \/ Login([username |-> "alice", password |-> "pw1"])
    \/ \E c \in CallIds, header \in RequestHeaders, args \in WriterArgs :
            AddBookFind(c, header, args)
    \/ \E c \in CallIds : AddBookSteps(c)
    \/ \E name \in {"Bob", "Frank Herbert"} :
            AddAuthor([name |-> name, born |-> None])
    \/ \E header \in RequestHeaders, name \in AuthorNames, y \in BornYears :
            EditAuthor(header, [name |-> name, setBornTo |-> y])
    \/ Subscribe

Spec == Init /\ [][Next]_vars

\* Sign-up and login over every username and password.
NextAuth ==
    \/ \E u \in Usernames, p \in Passwords, g \in FavoriteGenres, salt \in Salts :
            CreateUser([username |-> u, password |-> p, favoriteGenre |-> g], salt)
    \/ \E u \in Usernames, p \in Passwords :
            Login([username |-> u, password |-> p])

SpecAuth == Init /\ [][NextAuth]_vars

\* The listings: one writer at a time, books of every genre list, every filter.
NextQuery ==
    \/ CreateUser([username |-> "alice", password |-> "pw1", favoriteGenre |-> "fantasy"], "s1")
    \/ Login([username |-> "alice", password |-> "pw1"])
    \/ \E header \in RequestHeaders,
          args \in AddBookArgs({"Dune"}, {"Frank Herbert", "Isaac Asimov"}, GenreLists) :
            AddBookFind(1, header, args)
    \/ AddBookSteps(1)
    \/ \E author \in AuthorArgs, genre \in GenreArgs :
            QueryAllBooks([author |-> author, genre |-> genre])
    \/ QueryCounts

SpecQuery == Init /\ [][NextQuery]_vars

\* The reads: one writer at a time and explicit author creation fill the
\* catalogue, clients subscribe, and every query operation is asked.
NextRead ==
    \/ CreateUser([username |-> "alice", password |-> "pw1", favoriteGenre |-> "fantasy"], "s1")
    \/ Login([username |-> "alice", password |-> "pw1"])
    \/ \E header \in RequestHeaders,
          args \in AddBookArgs({"Dune"}, {"Frank Herbert", "Isaac Asimov"}, {<<"scifi">>}) :
            AddBookFind(1, header, args)
    \/ AddBookSteps(1)
    \/ AddAuthor([name |-> "Frank Herbert", born |-> None])
    \/ Subscribe
    \/ QueryCounts
    \/ QueryAllAuthors
    \/ \E genre \in {None, Some("scifi")} :
            QueryAllBooks([author |-> None, genre |-> genre])
    \/ \E header \in RequestHeaders : QueryMe(header)
    \/ \E i \in 1..MaxBooks : QueryBookAuthor(i)

SpecRead == Init /\ [][NextRead]_vars

\* The headers of the requests of the identity round trip: none, one of
\* another scheme, the bearer scheme in three spellings with a token signed
\* by somebody else, and in two spellings with a token that login issued.
IdentityHeaders ==
    {None, Header("Basic", ForgedToken("alice", 1))}
      \cup {Header(scheme, ForgedToken("alice", 1)) : scheme \in {"Bearer", "bearer", "BEARER"}}
      \cup {Header(scheme, t) : scheme \in {"Bearer", "bearer"}, t \in tokens}

IdentityArgs == AddBookArgs({"Dune"}, {"Frank Herbert"}, {<<"scifi">>})

\* Identity: two users sign up and log in, and requests of every header ask
\* who they are, add a Book and edit an Author.
NextIdentity ==
    \/ \E u \in Usernames :
            CreateUser([username |-> u, password |-> "pw1", favoriteGenre |-> "fantasy"], "s1")
    \/ \E u \in Usernames, p \in Passwords :
            Login([username |-> u, password |-> p])
    \/ \E header \in IdentityHeaders : QueryMe(header)
    \/ \E header \in IdentityHeaders, args \in IdentityArgs :
            AddBookFind(1, header, args)
    \/ AddBookSteps(1)
    \/ \E header \in IdentityHeaders, y \in BornYears :
            EditAuthor(header, [name |-> "Frank Herbert", setBornTo |-> y])

SpecIdentity == Init /\ [][NextIdentity]_vars

\* The store is shared with whatever else writes to the database: the author
\* reference of a stored Book is overwritten with an id no Author has.
BookCorrupted(i) ==
    /\ i \in DOMAIN books
    /\ books[i].author # ForeignId
    /\ books' = [books EXCEPT ![i].author = ForeignId]
    /\ UNCHANGED <<authors, users, calls, subs, tokens, resp>>

\* The catalogue over a store whose Book documents can be corrupted: Books
\* are added, and the author view of each Book and the listings are read.
NextCorrupt ==
    \/ CreateUser([username |-> "alice", password |-> "pw1", favoriteGenre |-> "fantasy"], "s1")
    \/ Login([username |-> "alice", password |-> "pw1"])
    \/ \E header \in RequestHeaders,
          args \in AddBookArgs({"Dune"}, {"Frank Herbert", "Isaac Asimov"}, {<<"scifi">>}) :
            AddBookFind(1, header, args)
    \/ AddBookSteps(1)
    \/ \E i \in 1..MaxBooks : BookCorrupted(i)
    \/ \E i \in 1..MaxBooks : QueryBookAuthor(i)
    \/ \E genre \in {None, Some("scifi")} :
            QueryAllBooks([author |-> None, genre |-> genre])
    \/ QueryAllAuthors

SpecCorrupt == Init /\ [][NextCorrupt]_vars

\* ------------------------------------------------------------------ claims: addBook

\* The number of Books of a collection that reference the Author id.
BooksReferencing(coll, id) ==
    Cardinality({i \in DOMAIN coll : coll[i].author = id})

\* The call in slot c looked its author name up and found no Author.
FoundNoAuthor(c) == calls[c].pc # "idle" /\ calls[c].author = None

\* The call in slot c looked its author name up and found an Author.
FoundAuthor(c) == calls[c].pc # "idle" /\ calls[c].author # None

\* The call in slot c moves from one position to another in this step.
Moves(c, from, to) == calls[c].pc = from /\ calls'[c].pc = to

\* C1 (as amended): a successful addBook call whose lookup finds no Author of
\* the given name creates exactly one Author, with that name and no birth
\* year, then exactly one Book that references the new Author's id, and
\* answers with that Book; the call passes each of these steps once, in order.
C1_UnseenAuthorSteps ==
    \A c \in CallIds :
      LET call == calls[c] IN
      /\ Moves(c, "idle", "insertAuthor") =>
            /\ FindAuthorByName(calls'[c].args[1].author) = None
            /\ calls'[c].author = None
            /\ UNCHANGED <<authors, books>>
      /\ call.pc = "insertAuthor" =>
            /\ call.author = None
            /\ calls'[c].pc \in {"insertAuthor", "saveBook", "idle"}
      /\ Moves(c, "insertAuthor", "saveBook") =>
            /\ authors' = Append(authors, [id |-> calls'[c].authorId[1],
                                           name |-> call.args[1].author,
                                           born |-> None])
            /\ \A i \in DOMAIN authors : authors[i].id # calls'[c].authorId[1]
            /\ UNCHANGED books
      /\ (call.pc = "saveBook" /\ call.author = None) =>
            calls'[c].pc \in {"saveBook", "publish", "idle"}
      /\ (Moves(c, "saveBook", "publish") /\ call.author = None) =>
            /\ books' = Append(books, calls'[c].book[1])
            /\ calls'[c].book[1].author = call.authorId[1]
            /\ calls'[c].book[1].title = call.args[1].title
            /\ \A i \in DOMAIN books : books[i].id # calls'[c].book[1].id
            /\ UNCHANGED authors
      /\ (call.pc = "publish" /\ call.author = None) =>
            /\ calls'[c].pc \in {"publish", "idle"}
            /\ calls'[c].pc = "idle" =>
                  /\ resp' = Response("addBook", Ok(call.book[1]))
                  /\ UNCHANGED <<authors, books>>

\* While such a call holds the id of the Author it created, exactly one
\* Author has that id, and it has the name of the call.
C1_UnseenAuthorHolds ==
    \A c \in CallIds :
      (FoundNoAuthor(c) /\ calls[c].pc \in {"saveBook", "publish"}) =>
        /\ Cardinality({i \in DOMAIN authors : authors[i].id = calls[c].authorId[1]}) = 1
        /\ FindAuthorById(calls[c].authorId[1])[1].name = calls[c].args[1].author
        /\ calls[c].pc = "publish" => calls[c].book[1].author = calls[c].authorId[1]

C2_ExistingAuthorSteps ==
    \A c \in CallIds :
      LET call == calls[c] IN
      /\ Moves(c, "idle", "saveBook") =>
            /\ FindAuthorByName(calls'[c].args[1].author) = calls'[c].author
            /\ calls'[c].author # None
            /\ calls'[c].author[1].name = calls'[c].args[1].author
            /\ calls'[c].authorId = Some(calls'[c].author[1].id)
            /\ UNCHANGED <<authors, books>>
      /\ FoundAuthor(c) =>
            /\ call.pc # "insertAuthor"
            /\ calls'[c].pc # "insertAuthor"
            /\ calls'[c].pc # call.pc => UNCHANGED authors
      /\ (FoundAuthor(c) /\ Moves(c, "saveBook", "publish")) =>
            /\ BooksReferencing(books', call.author[1].id)
                 = BooksReferencing(books, call.author[1].id) + 1
            /\ Len(books') = Len(books) + 1
      /\ (FoundAuthor(c) /\ Moves(c, "publish", "idle")) =>
            /\ resp' = Response("addBook", Ok(call.book[1]))
            /\ UNCHANGED books

\* C2, in full: every step of a call that found an Author is as
\* C2_ExistingAuthorSteps says: no Author created, one more Book for the
\* found Author.
C2_ExistingAuthorReused == [][C2_ExistingAuthorSteps]_vars

\* An addBook call that found an Author has saved its Book.
C2_Witness ==
    \E c \in CallIds : FoundAuthor(c) /\ calls[c].pc = "publish"

\* C3 as stated: addBook never creates two Authors of the same name: no two
\* calls each hold an Author they created under the same name.
C3_NoDuplicateAuthors ==
    \A c, d \in CallIds :
      (/\ c # d
       /\ FoundNoAuthor(c) /\ calls[c].pc \in {"saveBook", "publish"}
       /\ FoundNoAuthor(d) /\ calls[d].pc \in {"saveBook", "publish"})
      => calls[c].args[1].author # calls[d].args[1].author

\* The context built from the header holds no user.
EmptyContext(header) ==
    LET context == Context(header)
    IN  context.ok /\ context.value[1].currentUser = None

\* The context built from the header holds a user.
AuthenticatedContext(header) ==
    LET context == Context(header)
    IN  context.ok /\ context.value[1].currentUser # None

\* The answer is the error addBook and editAuthor give a caller without a user.
IsUnauthenticatedError(result) ==
    /\ ~result.ok
    /\ result.error[1].type = "UserInputError"
    /\ result.error[1].message = "missing authorization header"

\* C4: an addBook or editAuthor request whose context holds no user is
\* answered with the missing-authorization error, whatever its arguments, and
\* changes no Author, Book or User (and starts no addBook call). (Only a step
\* that leaves the collections a request's first step never writes alone can
\* be such a step, which is tested first.)
C4_UnauthenticatedRejected ==
    [][\A header \in RequestHeaders :
          EmptyContext(header) =>
            /\ UNCHANGED <<authors, books, users, subs, tokens>> =>
                  \A c \in CallIds, args \in WriterArgs :
                     AddBookFind(c, header, args) =>
                        /\ resp'.op = "addBook"
                        /\ IsUnauthenticatedError(resp'.result)
                        /\ UNCHANGED <<authors, books, users, calls>>
            /\ UNCHANGED <<books, users, calls, subs, tokens>> =>
                  \A name \in AuthorNames, y \in BornYears :
                     EditAuthor(header, [name |-> name, setBornTo |-> y]) =>
                        /\ resp'.op = "editAuthor"
                        /\ IsUnauthenticatedError(resp'.result)
                        /\ UNCHANGED <<authors, books, users, calls>>]_vars

\* A request without a user was turned away while the catalogue held
\* Authors and Books.
C4_Witness ==
    /\ resp.op \in {"addBook", "editAuthor"}
    /\ IsUnauthenticatedError(resp.result)
    /\ authors # <<>>
    /\ books # <<>>

\* C5: an addBook request of an authenticated caller with a title shorter
\* than 2 or an author name shorter than 4 is answered with a UserInputError
\* that carries the rejected arguments, and creates no Author and no Book.
C5_InvalidArgumentsRejected ==
    [][UNCHANGED <<authors, books, users, subs, tokens>> =>
         \A header \in RequestHeaders :
           AuthenticatedContext(header) =>
             \A c \in CallIds, args \in WriterArgs :
               ((Len(args.title) < 2 \/ Len(args.author) < 4) /\ AddBookFind(c, header, args))
               => /\ resp'.op = "addBook"
                  /\ ~resp'.result.ok
                  /\ resp'.result.error[1].type = "UserInputError"
                  /\ resp'.result.error[1].invalidArgs = Some(args)
                  /\ UNCHANGED <<authors, books, users, calls, subs>>]_vars

\* An authenticated caller's addBook request was turned away for its title
\* or its author name.
C5_Witness ==
    /\ resp.op = "addBook"
    /\ ~resp.result.ok
    /\ resp.result.error[1].message \in
          {"book title too short, must be at least 2",
           "author name too short, must be at least 4"}

\* ------------------------------------------------------------------ claims: bookAdded

\* Some addBook call publishes its event in this step.
Publishing(c) == Moves(c, "publish", "idle")

\* C6: when an addBook call publishes, every subscriber registered at that
\* moment is sent exactly one event, which carries the call's Book; nothing
\* else ever adds to what a subscriber was sent, and a subscriber that
\* registers starts with nothing (no event published earlier is replayed).
C6_DeliverySteps ==
    /\ Len(subs') >= Len(subs)
    /\ \A i \in DOMAIN subs' : i \notin DOMAIN subs => subs'[i] = <<>>
    /\ \A c \in CallIds :
          Publishing(c) =>
            \A i \in DOMAIN subs :
              subs'[i] = Append(subs[i], [bookAdded |-> calls[c].book[1]])
    /\ (\A c \in CallIds : ~Publishing(c)) =>
            \A i \in DOMAIN subs : subs'[i] = subs[i]

\* No subscriber is sent the event of a Book twice, and every event sent
\* carries a Book of the collection.
C6_DeliveredOnce ==
    \A i \in DOMAIN subs :
      /\ \A j, k \in DOMAIN subs[i] :
            subs[i][j].bookAdded.id = subs[i][k].bookAdded.id => j = k
      /\ \A j \in DOMAIN subs[i] :
            \E b \in DOMAIN books : books[b] = subs[i][j].bookAdded

\* C6, in full: every step delivers as C6_DeliverySteps says (one event to
\* each subscriber registered when addBook publishes, none replayed to a later
\* subscriber), and no subscriber is ever sent the event of a Book twice.
C6_SubscribersReceiveOnce == [][C6_DeliverySteps]_vars /\ []C6_DeliveredOnce

\* The first subscriber was sent an event; a second one, who registered after
\* it was published, has been sent nothing.
C6_Witness ==
    /\ Len(subs) = 2
    /\ Len(subs[1]) = 1
    /\ subs[2] = <<>>

\* ------------------------------------------------------------------ claims: login

LoginArgs == [username : Usernames, password : Passwords]

\* A User of that username exists and the password is not the one it was
\* created with.
WrongPassword(args) ==
    /\ FindUserByName(args.username) # None
    /\ \A salt \in Salts :
          FindUserByName(args.username)[1].passwordHash # BcryptHash(args.password, salt)

\* No User has that username.
UnknownUsername(args) == FindUserByName(args.username) = None

\* C7: a login with the username of a User and a wrong password, and a login
\* with a username no User has, are answered with one and the same error.
C7_SameLoginFailure ==
    \A a, b \in LoginArgs :
      (WrongPassword(a) /\ UnknownUsername(b)) =>
        /\ ~LoginResult(a).ok
        /\ LoginResult(a) = LoginResult(b)
        /\ LoginResult(a).error[1].message = "wrong credentials"

\* One User exists, so both failures can happen, and a login has just failed.
C7_Witness ==
    /\ Len(users) = 1
    /\ resp.op = "login"
    /\ ~resp.result.ok

\* C8: for every User created, a login with its username and the password it
\* was created with succeeds, and the token it returns verifies under the
\* server's secret to claims holding that username and that User's id.
C8_CreateUserThenLogin ==
    \A i \in DOMAIN users, p \in Passwords :
      (\E salt \in Salts : users[i].passwordHash = BcryptHash(p, salt)) =>
        LET result == LoginResult([username |-> users[i].username, password |-> p])
        IN  /\ result.ok
            /\ JwtVerify(result.value[1].value, JWT_SECRET)
                 = Some([username |-> users[i].username, id |-> users[i].id])

\* Two Users were created and one of them has logged in.
C8_Witness ==
    /\ Len(users) = 2
    /\ resp.op = "login"
    /\ resp.result.ok
    /\ JwtVerify(resp.result.value[1].value, JWT_SECRET)[1].id = 2

\* ------------------------------------------------------------------ claims: listings

\* The Books a listing answered, in the order answered; <<>> for an error.
Listed(result) ==
    IF result.ok THEN [i \in DOMAIN result.value[1] |-> result.value[1][i].book] ELSE <<>>

ListedSet(result) == {Listed(result)[i] : i \in DOMAIN Listed(result)}

\* The tag is an element of the genre tags of the Book.
HasTag(book, tag) == \E i \in DOMAIN book.genres : book.genres[i] = tag

\* C9 as stated: after a successful addBook, listing the Books by the name of
\* the created Book's Author answers a listing that holds the Book.
C9_ListedUnderAuthorName ==
    (resp.op = "addBook" /\ resp.result.ok) =>
      LET book == resp.result.value[1]
          author == FindAuthorById(book.author)
          result == AllBooks([author |-> Some(author[1].name), genre |-> None])
      IN  result.ok /\ book \in ListedSet(result)

\* C10 (as amended): a listing by a genre that is not the empty string
\* answers exactly the Books that have that tag, in stored order; a listing
\* without filter answers every Book; a listing by author and genre answers
\* exactly the Books that the listing by that author and the listing by that
\* genre both answer, and fails exactly when the listing by that author
\* fails; and when an addBook call on an empty store has created the first
\* Author and the first Book, authorCount and bookCount are 1 and the listing
\* by each tag of the Book is that Book alone.
C10_ListBooksFilters ==
    /\ \A genre \in GenreArgs :
          Truthy(genre) =>
            LET HasGenre(b) == HasTag(b, genre[1])
                result == AllBooks([author |-> None, genre |-> genre])
            IN  result.ok /\ Listed(result) = SelectSeq(books, HasGenre)
    /\ Listed(AllBooks([author |-> None, genre |-> None])) = books
    /\ AllBooks([author |-> None, genre |-> None]).ok
    /\ \A author \in AuthorArgs, genre \in GenreArgs :
          (Truthy(author) /\ Truthy(genre)) =>
            LET both == AllBooks([author |-> author, genre |-> genre])
                byAuthor == AllBooks([author |-> author, genre |-> None])
                byGenre == AllBooks([author |-> None, genre |-> genre])
            IN  /\ both.ok = byAuthor.ok
                /\ ListedSet(both) = ListedSet(byAuthor) \cap ListedSet(byGenre)
    /\ \A c \in CallIds :
          (/\ calls[c].pc = "publish"
           /\ FoundNoAuthor(c)
           /\ calls[c].authorId[1] = 1
           /\ calls[c].book[1].id = 1) =>
             /\ AuthorCount = 1
             /\ BookCount = 1
             /\ \A genre \in GenreArgs :
                   (Truthy(genre) /\ HasTag(calls[c].book[1], genre[1])) =>
                      Listed(AllBooks([author |-> None, genre |-> genre]))
                        = <<calls[c].book[1]>>

\* The store holds a Book tagged "sci" and a Book not tagged "sci", and the
\* listing by "sci" was just answered.
C10_Witness ==
    /\ Len(books) = 2
    /\ \E i, j \in DOMAIN books : HasTag(books[i], "sci") /\ ~HasTag(books[j], "sci")
    /\ resp = Response("allBooks", AllBooks([author |-> None, genre |-> Some("sci")]))
    /\ Len(Listed(resp.result)) = 1

\* C10 as stated: a listing by any genre g answers exactly the Books that
\* have the tag g.
C10_Original ==
    \A genre \in GenreArgs :
      genre # None =>
        LET HasGenre(b) == HasTag(b, genre[1])
        IN  Listed(AllBooks([author |-> None, genre |-> genre])) = SelectSeq(books, HasGenre)

\* ------------------------------------------------------------------ claims: editAuthor

\* No Author of the collection has the name.
NoAuthorNamed(name) == \A i \in DOMAIN authors : authors[i].name # name

\* C11: an editAuthor request of an authenticated caller with a name that no
\* Author has is answered with null, not with an error, and leaves the Author
\* collection as it was.
C11_UnknownNameAnswersNull ==
    [][UNCHANGED <<books, users, calls, subs, tokens>> =>
         \A header \in RequestHeaders :
           AuthenticatedContext(header) =>
             \A name \in AuthorNames, y \in BornYears :
               (NoAuthorNamed(name) /\ EditAuthor(header, [name |-> name, setBornTo |-> y]))
               => /\ resp'.op = "editAuthor"
                  /\ resp'.result.ok
                  /\ resp'.result.value[1] = None
                  /\ UNCHANGED authors]_vars

\* An editAuthor request was answered with null while the collection held
\* Authors of other names.
C11_Witness ==
    /\ resp.op = "editAuthor"
    /\ resp.result.ok
    /\ resp.result.value[1] = None
    /\ authors # <<>>

\* ------------------------------------------------------------------ claims: reads

\* The operations that only read: the answers of the Query resolvers and of
\* the Book.author field resolver.
ReadOps == {"counts", "allAuthors", "allBooks", "me", "bookAuthor"}

\* The addBook call in slot c has written to the store and has yet to answer.
HasWritten(c) ==
    \/ calls[c].pc = "publish"
    \/ calls[c].pc = "saveBook" /\ calls[c].author = None

\* A step in which a query is answered changes no Author, Book or User, no
\* subscriber, no addBook call in flight and no token.
C12_ReadSteps ==
    (resp' # resp /\ resp'.op \in ReadOps) =>
        UNCHANGED <<authors, books, users, subs, calls, tokens>>

\* While the last answer given is that of a listAuthors request (so no
\* mutation has answered since) and no addBook call in flight has written,
\* a second listAuthors request is answered what the first was.
C12_SameListing ==
    (resp.op = "allAuthors" /\ \A c \in CallIds : ~HasWritten(c)) =>
        resp.result = AllAuthors

AuthorExists(id) == \E a \in DOMAIN authors : authors[a].id = id

\* C13: in every state the mutations reach from the empty collections, under
\* every interleaving, the author reference of every Book is the id of an
\* Author of the collection, and so is the reference an addBook call in
\* flight is about to save.
C13_ReferentialIntegrity ==
    /\ \A b \in DOMAIN books : AuthorExists(books[b].author)
    /\ \A c \in CallIds :
          calls[c].pc \in {"saveBook", "publish"} => AuthorExists(calls[c].authorId[1])

\* Two Books reference two different Authors, one created by addBook and
\* one with a birth year set by editAuthor.
C13_Witness ==
    /\ Len(books) = 2
    /\ books[1].author # books[2].author
    /\ \E a \in DOMAIN authors : authors[a].born # None

\* ------------------------------------------------------------------ claims: identity

\* The header names the bearer scheme, in any spelling, and carries a token
\* that was not signed with the server's secret.
BadBearer(header) ==
    /\ header # None
    /\ header[1].scheme \in {"Bearer", "bearer", "BEARER"}
    /\ header[1].credentials.signature # <<header[1].credentials.payload, JWT_SECRET>>

\* The request failed while its context was built from a token that does
\* not verify.
IsInvalidTokenError(result) ==
    /\ ~result.ok
    /\ result.error[1].type = "JsonWebTokenError"

\* The request of kind op was answered with the invalid-token error and
\* nothing else happened.
FailsAsInvalidToken(op) ==
    /\ resp'.op = op
    /\ IsInvalidTokenError(resp'.result)
    /\ UNCHANGED <<authors, books, users, calls, subs, tokens>>

\* C14: a request whose header has the bearer prefix, in any spelling, and
\* a token that does not verify fails with the invalid-token error, whatever
\* the operation: whoAmI does not answer as for an anonymous caller, addBook
\* and editAuthor are not run (they do not answer with the error they give an
\* anonymous caller, and start and write nothing). A whoAmI request without
\* header is answered from an empty context: nobody.
C14_InvalidTokenFails ==
    [][UNCHANGED <<authors, books, users, calls, subs, tokens>> =>
         \A header \in IdentityHeaders :
           /\ BadBearer(header) =>
                 /\ QueryMe(header) => FailsAsInvalidToken("me")
                 /\ \A args \in IdentityArgs :
                       AddBookFind(1, header, args) => FailsAsInvalidToken("addBook")
                 /\ \A y \in BornYears :
                       EditAuthor(header, [name |-> "Frank Herbert", setBornTo |-> y])
                         => FailsAsInvalidToken("editAuthor")
           /\ (header = None /\ QueryMe(header)) =>
                 /\ resp'.result.ok
                 /\ resp'.result.value[1] = None]_vars

\* An addBook request with a forged bearer token failed with the
\* invalid-token error while a User was registered and had logged in.
C14_Witness ==
    /\ resp.op = "addBook"
    /\ IsInvalidTokenError(resp.result)
    /\ tokens # {}

\* ------------------------------------------------------------------ claims: atomicity

\* The addBook call in slot c fails in this step because the store rejected
\* the save of its Book.
BookSaveFails(c) ==
    /\ Moves(c, "saveBook", "idle")
    /\ resp'.op = "addBook"
    /\ ~resp'.result.ok

\* C15 as stated: when an addBook call fails because the store rejected its
\* Book, no record of the call remains: the Author the call created for a
\* name it had not found is no longer in the collection.
C15_AllOrNothing ==
    [][\A c \in CallIds :
          (BookSaveFails(c) /\ calls[c].author = None) =>
             ~\E a \in DOMAIN authors' : authors'[a].id = calls[c].authorId[1]]_vars

\* ------------------------------------------------------------------ claims: editAuthor update

\* C16: a successful editAuthor(name, setBornTo) of an authenticated caller
\* changes one Author of that name and nothing else: its birth year becomes
\* setBornTo, its name and id stay, it is the Author answered, every other
\* Author (also one of the same name), every Book and every User stay as they
\* were, and the collection has as many Authors as before.
C16_EditChangesBornOnly ==
    [][UNCHANGED <<calls, subs, tokens>> =>
         \A header \in RequestHeaders :
           AuthenticatedContext(header) =>
             \A name \in AuthorNames, y \in BornYears :
               (/\ EditAuthor(header, [name |-> name, setBornTo |-> y])
                /\ resp'.result.ok
                /\ resp'.result.value[1] # None)
               => /\ Len(authors') = Len(authors)
                  /\ \E i \in DOMAIN authors :
                        /\ authors[i].name = name
                        /\ authors'[i] = [authors[i] EXCEPT !.born = Some(y)]
                        /\ resp'.result.value[1] = Some(authors'[i])
                        /\ \A j \in DOMAIN authors : j # i => authors'[j] = authors[j]
                  /\ UNCHANGED <<books, users>>]_vars

\* editAuthor answered the updated Author while a second Author of the same
\* name, left without birth year, and a Book were in the store.
C16_Witness ==
    /\ resp.op = "editAuthor"
    /\ resp.result.ok
    /\ resp.result.value[1] # None
    /\ Len(authors) = 2
    /\ authors[1].name = authors[2].name
    /\ authors[1].born # authors[2].born
    /\ books # <<>>

\* ------------------------------------------------------------------ claims: publication

\* Some subscriber is sent something in this step.
Delivers == \E i \in DOMAIN subs : subs'[i] # subs[i]

\* The Book is a document of the collection.
Persisted(book) == \E b \in DOMAIN books : books[b] = book

\* An addBook request is answered in this step, with a Book or with an error.
AddBookAnswered == resp' # resp /\ resp'.op = "addBook"

\* C17: subscribers are sent an event only in the step in which an addBook
\* call answers with its Book, and that Book was persisted before that step;
\* an addBook call that answers with its Book publishes in that step, one
\* event to each subscriber; an addBook call that answers with an error
\* (no user, invalid arguments, a save the store rejected) sends nothing.
C17_PublishSteps ==
    /\ Delivers =>
          \E c \in CallIds :
            /\ Publishing(c)
            /\ Persisted(calls[c].book[1])
            /\ resp' = Response("addBook", Ok(calls[c].book[1]))
    /\ (AddBookAnswered /\ resp'.result.ok) =>
          \E c \in CallIds :
            /\ Publishing(c)
            /\ Persisted(resp'.result.value[1])
            /\ \A i \in DOMAIN subs :
                  subs'[i] = subs[i] \o <<[bookAdded |-> resp'.result.value[1]]>>
    /\ (AddBookAnswered /\ ~resp'.result.ok) => ~Delivers /\ Len(subs') = Len(subs)

\* Every event any subscriber was sent carries a Book of the collection.
C17_PublishedPersisted ==
    \A i \in DOMAIN subs : \A j \in DOMAIN subs[i] : Persisted(subs[i][j].bookAdded)

\* C17, in full.
C17_PublishedAfterPersisted == [][C17_PublishSteps]_vars /\ []C17_PublishedPersisted

\* One addBook call succeeded and its event was sent once; a later call
\* failed at the save of its Book and sent nothing.
C17_Witness ==
    /\ resp.op = "addBook"
    /\ ~resp.result.ok
    /\ resp.result.error[1].message = "book save failed"
    /\ Len(books) = 1
    /\ subs # <<>>
    /\ Len(subs[1]) = 1

\* ------------------------------------------------------------------ claims: counts

\* The book count of the view equals the number of Books that reference id.
CountsBooksOf(view, id) == view.bookCount = BooksReferencing(books, id)

\* C18: in every state, listAuthors would answer each Author with the number
\* of Books that reference its id, the author view of each Book (as stored,
\* and as a filtered listing populates it) carries the number of Books that
\* reference the Book's author, bookCount and authorCount are the numbers of
\* Book and Author documents, and no Author document holds a count; and the
\* counts of a listAuthors answer are those of the store as long as nothing
\* was written since.
C18_CountsAreComputed ==
    /\ AllAuthors.ok
    /\ DOMAIN AllAuthors.value[1] = DOMAIN authors
    /\ \A i \in DOMAIN authors :
          /\ AllAuthors.value[1][i].id = authors[i].id
          /\ CountsBooksOf(AllAuthors.value[1][i], authors[i].id)
          /\ DOMAIN authors[i] = {"id", "name", "born"}
    /\ \A b \in DOMAIN books :
          \A entry \in {Stored(books[b]), Populated(books[b])} :
            BookAuthor(entry).ok =>
              CountsBooksOf(BookAuthor(entry).value[1], books[b].author)
    /\ BookCount = Cardinality(DOMAIN books)
    /\ AuthorCount = Cardinality(DOMAIN authors)
    /\ (resp.op = "allAuthors" /\ \A c \in CallIds : ~HasWritten(c)) =>
          \A i \in DOMAIN authors :
            CountsBooksOf(resp.result.value[1][i], authors[i].id)
    /\ (resp.op = "bookAuthor" /\ resp.result.ok /\ \A c \in CallIds : ~HasWritten(c)) =>
          CountsBooksOf(resp.result.value[1], resp.result.value[1].id)

\* listAuthors answered an Author with two Books and an Author with none.
C18_Witness ==
    /\ resp.op = "allAuthors"
    /\ resp.result = AllAuthors
    /\ \E i, j \in DOMAIN authors :
          /\ resp.result.value[1][i].bookCount = 2
          /\ resp.result.value[1][j].bookCount = 0

\* ------------------------------------------------------------------ claims: dangling references

\* C19 as stated: when the author view of a Book whose author reference is
\* the id of no Author is resolved, the request fails with an error of its
\* own kind, DanglingReference, and answers no Author.
C19_DanglingReferenceReported ==
    \A b \in DOMAIN books :
      (/\ ~AuthorExists(books[b].author)
       /\ resp = Response("bookAuthor", BookAuthor(Stored(books[b]))))
      => /\ ~resp.result.ok
         /\ resp.result.error[1].type = "DanglingReference"

\* ------------------------------------------------------------------ claims: identity round trip

\* The context of a request that carries the token under the bearer scheme.
ContextOfToken(token) == Context(Header("Bearer", token))

\* The context holds exactly this User: whoAmI answers it, and addBook and
\* editAuthor pass their authentication test.
HoldsUser(context, user) ==
    /\ context.ok
    /\ context.value[1].currentUser = Some(user)
    /\ Me(context.value[1]) = Some(UserView(user))
    /\ ~Unauthenticated(context.value[1])
    /\ \A args \in IdentityArgs : AddBookRejection(args, context.value[1]) = None

\* C20: for every User and every password with which its login succeeds, a
\* request carrying the token of that login as bearer credential gets a
\* context holding exactly that User; the same goes for every token a login
\* has issued so far; a request without header gets a context holding
\* nobody, and whoAmI answers null; and a whoAmI answer that names somebody
\* names a User of the collection.
C20_IdentityRoundTrip ==
    /\ \A i \in DOMAIN users, p \in Passwords :
          LET result == LoginResult([username |-> users[i].username, password |-> p])
          IN  result.ok => HoldsUser(ContextOfToken(result.value[1].value), users[i])
    /\ \A t \in tokens :
          \E i \in DOMAIN users :
            /\ users[i].username = t.payload.username
            /\ HoldsUser(ContextOfToken(t), users[i])
    /\ Context(None).ok
    /\ Context(None).value[1].currentUser = None
    /\ Me(Context(None).value[1]) = None
    /\ (resp.op = "me" /\ resp.result.ok /\ resp.result.value[1] # None) =>
          \E i \in DOMAIN users : resp.result.value[1] = Some(UserView(users[i]))

\* Two Users are registered, the second has logged in, and whoAmI answered
\* a request with its token with the second User.
C20_Witness ==
    /\ Len(users) = 2
    /\ resp.op = "me"
    /\ resp.result.ok
    /\ resp.result.value[1] = Some(UserView(users[2]))
    /\ \E t \in tokens : t.payload.id = 2

====
